---- MODULE Spec2Model ----
(***************************************************************************)
(* The ArangoDB graph storage adapter of PathRAG                           *)
(* (src/src/arangodb_storage.py, class ArangoDBGraphStorage) as a state    *)
(* machine: the node and the edge collection of one namespace, the         *)
(* adapter's operations as actions, one step per store statement.          *)
(*                                                                         *)
(* A Python str is a sequence of tokens, so that the f-strings of the      *)
(* source are concatenations: "a" is <<"a">>, and "a_to_a" is              *)
(* <<"a", "_to_", "a">>.                                                   *)
(***************************************************************************)
EXTENDS Integers, Sequences, FiniteSets, TLC

VARIABLES
    workload,          \* the ids and attribute mappings the callers use
    database,          \* the collections, graphs and indexes the server has
    adapter,           \* per caller: the adapter it holds
    nodes_collection,  \* document key -> stored node document
    edges_collection,  \* document key -> stored edge document
    pc,                \* per caller: the statement its call is at
    call,              \* per caller: the arguments of its call in flight
    last,              \* the call that completed last, with what it returned
    repeated,          \* the last call is the call before it over again
    guarded,           \* every upsert_edge so far found both endpoints stored
    raced,             \* an upsert_edge wrote between a delete_node's sweep and its return
    scenario,          \* how far the calls so far follow ScenarioCalls
    snapshots          \* per caller in edge_degree: the edge collection as the
                       \* call began, the sums of the two degrees in the states
                       \* of the edge collection since

vars == <<workload, database, adapter, nodes_collection, edges_collection, pc,
          call, last, repeated, guarded, raced, scenario, snapshots>>

server == <<database, adapter>>

store == <<nodes_collection, edges_collection>>

-----------------------------------------------------------------------------
(* Bounds of the model *)

MaxEdges == 2

-----------------------------------------------------------------------------
(* Python values: a tag and a payload *)

Str(s) == [t |-> "str", v |-> s]
Num(n) == [t |-> "num", v |-> n]
NdArray(xs) == [t |-> "ndarray", v |-> xs]
List(xs) == [t |-> "list", v |-> xs]
Tuple(xs) == [t |-> "tuple", v |-> xs]
Dict(f) == [t |-> "dict", v |-> f]
None == [t |-> "None", v |-> <<>>]

\* numpy's ndarray.tolist(): the numbers as a plain list
tolist(data) == List([i \in DOMAIN data.v |-> Num(data.v[i])])

RECURSIVE _serialize_data(_)
_serialize_data(data) ==
    IF data.t = "ndarray" THEN tolist(data)
    ELSE IF data.t = "dict"
        THEN Dict([k \in DOMAIN data.v |-> _serialize_data(data.v[k])])
    ELSE IF data.t = "list"
        THEN List([i \in DOMAIN data.v |-> _serialize_data(data.v[i])])
    ELSE data

\* A numeric vector at any depth of a value
RECURSIVE has_ndarray(_)
has_ndarray(data) ==
    IF data.t = "ndarray" THEN TRUE
    ELSE IF data.t = "dict" THEN \E k \in DOMAIN data.v : has_ndarray(data.v[k])
    ELSE IF data.t \in {"list", "tuple"}
        THEN \E i \in DOMAIN data.v : has_ndarray(data.v[i])
    ELSE FALSE

\* The document as the store keeps it: the driver sends JSON, where a tuple is
\* an array like a list
RECURSIVE json(_)
json(data) ==
    IF data.t = "dict" THEN Dict([k \in DOMAIN data.v |-> json(data.v[k])])
    ELSE IF data.t \in {"list", "tuple"}
        THEN List([i \in DOMAIN data.v |-> json(data.v[i])])
    ELSE data

-----------------------------------------------------------------------------
(* Names *)

namespace == <<"ns">>
nodes_collection_name == namespace \o <<"_nodes">>
edges_collection_name == namespace \o <<"_edges">>
graph_name == namespace \o <<"_graph">>

\* The index of a collection on one field
index_name(collection_name, field) == collection_name \o <<"[", field, "]">>

\* f"{self.nodes_collection_name}/{node_id}"
node_handle(node_id) == nodes_collection_name \o <<"/">> \o node_id

\* f"{source_node_id}_to_{target_node_id}"
edge_key(source_node_id, target_node_id) ==
    source_node_id \o <<"_to_">> \o target_node_id

\* SUBSTRING(handle, LENGTH('<nodes_collection_name>/'), -1)
handle_key(handle) ==
    SubSeq(handle, Len(nodes_collection_name \o <<"/">>) + 1, Len(handle))

-----------------------------------------------------------------------------
(* The ids and the attribute mappings of the callers *)

a == <<"a">>
b == <<"b">>
c == <<"c">>
a_to_a == <<"a", "_to_", "a">>

NoId == <<>>

ReservedKeys == {"_key", "_from", "_to"}

DataEmpty == Dict(<<>>)
DataText == Dict([content |-> Str(<<"x">>), entity_type |-> Str(<<"entity">>)])
DataText2 == Dict([content |-> Str(<<"y">>)])
DataVector ==
    Dict([content |-> Str(<<"y">>),
          embedding |-> NdArray(<<1, 2>>),
          meta |-> Dict([tags |-> List(<<Str(<<"t">>), NdArray(<<3>>)>>)])])
DataTuple == Dict([span |-> Tuple(<<Num(1), Num(2)>>)])
DataTupleVector == Dict([span |-> Tuple(<<NdArray(<<1>>)>>)])
DataKey == Dict(("_key" :> Str(b)) @@ [content |-> Str(<<"x">>)])

RelA == Dict([weight |-> Num(1), description |-> Str(<<"r">>)])
RelB == Dict([weight |-> Num(2)])
RelKey == Dict(("_key" :> Str(<<"k">>)) @@ [weight |-> Num(1)])
RelTo == Dict(("_to" :> Str(node_handle(b))) @@ [weight |-> Num(1)])

Algorithms == {<<"node2vec">>, <<"other">>}

\* required_keys
required_keys == {"host", "port", "username", "password", "database"}

\* An "arangodb" section with the given settings
Settings(keys) == Dict([k \in keys |-> Str(<<k>>)])

ConfigComplete == Settings(required_keys)
ConfigNoPort == Settings(required_keys \ {"port"})
ConfigNoDatabase == Settings(required_keys \ {"database"})

\* global_config: the section at the top level, under addon_params, in both
\* places, nowhere
GlobalTop == Dict([arangodb |-> ConfigComplete])
GlobalAddon == Dict([addon_params |-> Dict([arangodb |-> ConfigComplete])])
GlobalTopNoPort == Dict([arangodb |-> ConfigNoPort])
GlobalAddonNoDatabase ==
    Dict([addon_params |-> Dict([arangodb |-> ConfigNoDatabase])])
GlobalBoth ==
    Dict([addon_params |-> Dict([arangodb |-> ConfigNoDatabase]),
          arangodb |-> ConfigComplete])
GlobalNoSection == Dict([addon_params |-> Dict(<<>>)])
GlobalConfigs ==
    {GlobalTop, GlobalAddon, GlobalTopNoPort, GlobalAddonNoDatabase, GlobalBoth,
     GlobalNoSection}

\* What a server has once an adapter of the namespace was constructed on it
Provisioned ==
    {nodes_collection_name, edges_collection_name, graph_name,
     index_name(nodes_collection_name, "_key"),
     index_name(edges_collection_name, "_key"),
     index_name(edges_collection_name, "_from"),
     index_name(edges_collection_name, "_to")}

\* Servers that have some of the namespace's collections and graph, each
\* collection with the index on _key it is created with
Databases ==
    { S \cup {index_name(n, "_key") :
                 n \in S \cap {nodes_collection_name, edges_collection_name}} :
        S \in SUBSET {nodes_collection_name, edges_collection_name, graph_name} }

\* One caller, whose calls follow one another: graph shapes; ids that contain
\* "_to_"; node attribute mappings; edge attribute mappings; writes
\* and reads, all through an adapter constructed before; two callers that
\* construct their adapters, one after the other, on servers that have some of
\* the collections
Workloads ==
    { [name |-> "graph", callers |-> {"c1"}, serial |-> TRUE, ids |-> {a, b, c},
       node_data |-> {DataEmpty}, edge_data |-> {RelA}, read_ids |-> {},
       degree_ids |-> {}, configs |-> {}, databases |-> {Provisioned}],
      [name |-> "keys", callers |-> {"c1"}, serial |-> TRUE, ids |-> {a, a_to_a},
       node_data |-> {DataEmpty}, edge_data |-> {RelA, RelB}, read_ids |-> {},
       degree_ids |-> {}, configs |-> {}, databases |-> {Provisioned}],
      [name |-> "nodes", callers |-> {"c1"}, serial |-> TRUE, ids |-> {a, b},
       node_data |-> {DataEmpty, DataText, DataText2, DataVector, DataTuple,
                      DataTupleVector, DataKey},
       edge_data |-> {}, read_ids |-> {}, degree_ids |-> {}, configs |-> {},
       databases |-> {Provisioned}],
      [name |-> "edges", callers |-> {"c1"}, serial |-> TRUE, ids |-> {a, b},
       node_data |-> {DataEmpty},
       edge_data |-> {RelA, RelKey, RelTo}, read_ids |-> {}, degree_ids |-> {},
       configs |-> {}, databases |-> {Provisioned}],
      [name |-> "reads", callers |-> {"c1"}, serial |-> TRUE, ids |-> {a, b},
       node_data |-> {DataEmpty, DataText}, edge_data |-> {RelA},
       read_ids |-> {a, b}, degree_ids |-> {}, configs |-> {},
       databases |-> {Provisioned}],
      [name |-> "degrees", callers |-> {"c1"}, serial |-> TRUE, ids |-> {a, b},
       node_data |-> {DataEmpty}, edge_data |-> {RelA}, read_ids |-> {},
       degree_ids |-> {a, b}, configs |-> {}, databases |-> {Provisioned}],
      [name |-> "construct", callers |-> {"c1", "c2"}, serial |-> TRUE,
       ids |-> {a}, node_data |-> {DataText}, edge_data |-> {RelA},
       read_ids |-> {a}, degree_ids |-> {}, configs |-> GlobalConfigs,
       databases |-> Databases] }

\* Two callers, whose calls interleave statement by statement: on a server
\* provisioned before, constructing their adapters, and reading degrees while
\* edges are written and nodes deleted
RaceWorkload ==
    [name |-> "race", callers |-> {"c1", "c2"}, serial |-> FALSE, ids |-> {a, b},
     node_data |-> {DataEmpty}, edge_data |-> {RelA}, read_ids |-> {},
     degree_ids |-> {}, configs |-> {}, databases |-> {Provisioned}]

RaceConstructWorkload ==
    [name |-> "race construct", callers |-> {"c1", "c2"}, serial |-> FALSE,
     ids |-> {a}, node_data |-> {DataEmpty}, edge_data |-> {RelA},
     read_ids |-> {a}, degree_ids |-> {}, configs |-> {GlobalTop, GlobalTopNoPort},
     databases |-> {{}, Provisioned}]

RaceDegreeWorkload ==
    [name |-> "race degree", callers |-> {"c1", "c2"}, serial |-> FALSE,
     ids |-> {a}, node_data |-> {}, edge_data |-> {RelA, RelB}, read_ids |-> {},
     degree_ids |-> {a}, configs |-> {}, databases |-> {Provisioned}]

Callers == workload.callers

\* An attribute mapping with no key of the store's own
plain(data) == DOMAIN data.v \cap ReservedKeys = {}

-----------------------------------------------------------------------------
(* The store: a collection maps a document's _key to the document *)

collection_has(collection, key) == key \in DOMAIN collection

collection_get(collection, key) ==
    IF key \in DOMAIN collection THEN Dict(collection[key]) ELSE None

\* insert(document, overwrite=True): the document under its _key, replacing
\* the one that was there
insert(collection, document) ==
    LET key == document["_key"].v
    IN  [k \in DOMAIN collection \cup {key} |->
            IF k = key THEN json(Dict(document)).v ELSE collection[k]]

\* json.dumps of the document raises on a numpy array
insert_raises(document) == has_ndarray(Dict(document))

delete(collection, key) ==
    [k \in DOMAIN collection \ {key} |-> collection[k]]

\* FOR doc IN collection FILTER ... : the keys of the matching documents, in the
\* order the store hands them out
RECURSIVE keys_in_order(_)
keys_in_order(keys) ==
    IF keys = {} THEN <<>>
    ELSE LET k == CHOOSE x \in keys : TRUE
         IN  <<k>> \o keys_in_order(keys \ {k})

\* FILTER edge._from == CONCAT('<nodes_collection_name>/', node_key)
out_keys(edges, node_id) ==
    {k \in DOMAIN edges : edges[k]["_from"].v = node_handle(node_id)}

\* The FILTER comparing edge._to with the bare key, the CONCAT left out
in_keys_bare(edges, node_id) ==
    {k \in DOMAIN edges : edges[k]["_to"].v = node_id}

\* FILTER edge._to == CONCAT('<nodes_collection_name>/', node_key)
in_keys(edges, node_id) ==
    {k \in DOMAIN edges : edges[k]["_to"].v = node_handle(node_id)}

\* The pair with the target first
edge_pair_swapped(edge) ==
    <<handle_key(edge["_to"].v), handle_key(edge["_from"].v)>>

\* RETURN [SUBSTRING(edge._from, ...), SUBSTRING(edge._to, ...)]
edge_pair(edge) == <<handle_key(edge["_from"].v), handle_key(edge["_to"].v)>>

edge_pairs(edges, keys) ==
    LET order == keys_in_order(keys)
    IN  [i \in DOMAIN order |-> edge_pair(edges[order[i]])]

-----------------------------------------------------------------------------
(* The reads of the adapter, on the store as it is *)

has_node(node_id) == collection_has(nodes_collection, node_id)

has_edge(source_node_id, target_node_id) ==
    collection_has(edges_collection, edge_key(source_node_id, target_node_id))

get_node(node_id) == collection_get(nodes_collection, node_id)

get_edge(source_node_id, target_node_id) ==
    collection_get(edges_collection, edge_key(source_node_id, target_node_id))

\* The degree as the number of edges that touch the node
degree_in_distinct(edges, node_id) ==
    Cardinality(out_keys(edges, node_id) \cup in_keys(edges, node_id))

\* RETURN LENGTH(out_edges) + LENGTH(in_edges)
degree_in(edges, node_id) ==
    Cardinality(out_keys(edges, node_id)) + Cardinality(in_keys(edges, node_id))

node_degree(node_id) == degree_in(edges_collection, node_id)

\* The sum that counts a node that is both source and target once
edge_degree_once(src_id, tgt_id) ==
    node_degree(src_id) + (IF tgt_id = src_id THEN 0 ELSE node_degree(tgt_id))

\* return src_degree + tgt_degree
edge_degree(src_id, tgt_id) == node_degree(src_id) + node_degree(tgt_id)

get_node_in_edges(node_id) ==
    edge_pairs(edges_collection, in_keys(edges_collection, node_id))

get_node_out_edges(node_id) ==
    edge_pairs(edges_collection, out_keys(edges_collection, node_id))

\* The combined view with an edge that is in both arrays kept once
get_node_edges_distinct(node_id) ==
    edge_pairs(edges_collection,
               out_keys(edges_collection, node_id)
                   \cup in_keys(edges_collection, node_id))

\* RETURN UNION(outbound, inbound): AQL's UNION appends the arrays and keeps
\* what is in both (UNION_DISTINCT would not)
get_node_edges(node_id) ==
    get_node_out_edges(node_id) \o get_node_in_edges(node_id)

\* FOR v, e, p IN 1..10
max_depth == 10

\* The stored edges a traversal in ANY direction can follow from a vertex: those
\* that have its handle as _from or _to and are not on the path yet
edges_at(handle, path) ==
    {k \in DOMAIN edges_collection \ path :
        handle \in {edges_collection[k]["_from"].v, edges_collection[k]["_to"].v}}

other_end(k, handle) ==
    IF edges_collection[k]["_from"].v = handle
    THEN edges_collection[k]["_to"].v ELSE edges_collection[k]["_from"].v

\* The rows of the traversal: one for each path of 1 to 10 edges from the
\* vertex that has no edge twice (a vertex may be on it more than once)
RECURSIVE rows_from(_, _, _)
RECURSIVE rows_over(_, _, _, _)
rows_over(keys, handle, path, depth) ==
    IF keys = {} THEN 0
    ELSE LET k == CHOOSE x \in keys : TRUE
         IN  1 + rows_from(other_end(k, handle), path \cup {k}, depth + 1)
               + rows_over(keys \ {k}, handle, path, depth)

rows_from(handle, path, depth) ==
    IF depth >= max_depth THEN 0
    ELSE rows_over(edges_at(handle, path), handle, path, depth)

\* LENGTH(graph_data): a start vertex that is no stored document gives no row
graph_data(node_id) ==
    IF has_node(node_id) THEN rows_from(node_handle(node_id), {}, 0) ELSE 0

\* RETURN LENGTH(graph_data) > 0 ? 1.0 / LENGTH(graph_data) : 0.0, as the
\* fraction <<numerator, denominator>>
get_pagerank(node_id) ==
    IF graph_data(node_id) > 0 THEN <<1, graph_data(node_id)>> ELSE <<0, 1>>

-----------------------------------------------------------------------------
(* Completed calls *)

NoCall == [op |-> "none", node_id |-> NoId]

Idle == \A p \in Callers : pc[p] = "idle"

\* What a constructed adapter holds: the names of its collections and graph
Adapter(name) ==
    [nodes_collection_name |-> name \o <<"_nodes">>,
     edges_collection_name |-> name \o <<"_edges">>,
     graph_name |-> name \o <<"_graph">>]

NoAdapter ==
    [nodes_collection_name |-> <<>>, edges_collection_name |-> <<>>,
     graph_name |-> <<>>]

\* The caller has no call in flight, and where calls follow one another no
\* caller has
free(p) == pc[p] = "idle" /\ (workload.serial => Idle)

\* The caller can call a method of its adapter
ready(p) == free(p) /\ adapter[p] # NoAdapter

\* The scenario of the specification: nodes a, b, c, edges (a, b) and (b, c),
\* then delete_node(b)
ScenarioCalls ==
    << [op |-> "upsert_node", node_id |-> a, target |-> NoId],
       [op |-> "upsert_node", node_id |-> b, target |-> NoId],
       [op |-> "upsert_node", node_id |-> c, target |-> NoId],
       [op |-> "upsert_edge", node_id |-> a, target |-> b],
       [op |-> "upsert_edge", node_id |-> b, target |-> c],
       [op |-> "delete_node", node_id |-> b, target |-> NoId] >>

ScenarioOff == Len(ScenarioCalls) + 1

\* The scenario goes on when the call is its next one, raised nothing and
\* carried an ordinary attribute mapping
follow(k, rec) ==
    IF /\ k < Len(ScenarioCalls)
       /\ ScenarioCalls[k + 1] =
              [op |-> rec.op, node_id |-> rec.node_id, target |-> rec.target]
       /\ ~rec.raised
       /\ rec.data.t = "dict" => plain(rec.data)
    THEN k + 1
    ELSE ScenarioOff

\* A delete_node of another caller that has swept the edges of node_id and has
\* not returned
sweeping(p, node_id) ==
    \E q \in Callers \ {p} :
        pc[q] \in {"delete_has", "delete_delete"} /\ call[q].node_id = node_id

NoSnapshots == [began |-> <<>>, sums |-> {}]

\* What the caller of edge_degree could have been given: the sum of the two
\* degrees in each state of the edge collection while its call is in flight
Observe ==
    snapshots' =
        [q \in Callers |->
            LET sum == degree_in(edges_collection', call'[q].node_id)
                           + degree_in(edges_collection', call'[q].target)
            IN  IF pc'[q] # "edge_degree_tgt" THEN NoSnapshots
                ELSE IF pc[q] = "edge_degree_tgt"
                    THEN [snapshots[q] EXCEPT !.sums = @ \cup {sum}]
                ELSE [began |-> edges_collection', sums |-> {sum}]]

Completed(p, rec) ==
    /\ Observe
    /\ last' = rec
    /\ repeated' = (rec = last)
    /\ scenario' = follow(scenario, rec)
    /\ guarded' = (guarded /\ (rec.op = "upsert_edge" =>
                                   has_node(rec.node_id) /\ has_node(rec.target)))
    /\ raced' = (raced \/ (/\ rec.op = "upsert_edge"
                           /\ ~rec.raised
                           /\ sweeping(p, rec.node_id) \/ sweeping(p, rec.target)))

NotCompleted == Observe /\ UNCHANGED <<last, repeated, scenario, guarded, raced>>

\* A step in which a call returns: no caller moves on to a statement inside a
\* call
completes == \A p \in Callers : pc'[p] \in {pc[p], "idle"}

-----------------------------------------------------------------------------
(* upsert_node *)

\* The document stamped with whether the node is new
node_document_stamped(node_id, node_data) ==
    _serialize_data(node_data).v
        @@ ("_key" :> Str(node_id))
        @@ ("is_new" :> Str(IF collection_has(nodes_collection, node_id)
                            THEN <<"no">> ELSE <<"yes">>))

\* {"_key": node_id, **serialized_data}
node_document(node_id, node_data) ==
    _serialize_data(node_data).v @@ ("_key" :> Str(node_id))

\* The result that reports success whatever the insert did
node_result_success(node_id, raised) == [node_id |-> node_id, success |-> TRUE]

\* return {"node_id": node_id, "success": True}, and what the except branch
\* returns
node_result(node_id, raised) ==
    IF raised THEN [node_id |-> node_id, success |-> FALSE, error |-> "str(e)"]
    ELSE [node_id |-> node_id, success |-> TRUE]

upsert_node(p, node_id, node_data, fails) ==
    LET document == node_document(node_id, node_data)
        raised == fails \/ insert_raises(document)
        ret == node_result(node_id, raised)
    IN  /\ ready(p)
        /\ nodes_collection' =
               IF raised THEN nodes_collection
               ELSE insert(nodes_collection, document)
        /\ UNCHANGED <<workload, server, edges_collection, pc, call>>
        /\ Completed(p, [op |-> "upsert_node", node_id |-> node_id,
                         target |-> NoId, data |-> node_data, ret |-> ret,
                         raised |-> raised, func_calls |-> 0])

-----------------------------------------------------------------------------
(* upsert_edge *)

\* {"_key": edge_key, "_from": ..., "_to": ..., **serialized_data}
edge_document(source_node_id, target_node_id, edge_data) ==
    _serialize_data(edge_data).v
        @@ ("_key" :> Str(edge_key(source_node_id, target_node_id)))
        @@ ("_from" :> Str(node_handle(source_node_id)))
        @@ ("_to" :> Str(node_handle(target_node_id)))

\* return {"edge_id": edge_key, "success": True}, and what the except branch
\* returns
edge_result(edge_id, raised) ==
    IF raised THEN [edge_id |-> edge_id, success |-> FALSE, error |-> "str(e)"]
    ELSE [edge_id |-> edge_id, success |-> TRUE]

upsert_edge(p, source_node_id, target_node_id, edge_data, fails) ==
    LET edge_doc == edge_document(source_node_id, target_node_id, edge_data)
        raised == fails \/ insert_raises(edge_doc)
        ret == edge_result(edge_key(source_node_id, target_node_id), raised)
    IN  /\ ready(p)
        /\ \/ edge_doc["_key"].v \in DOMAIN edges_collection
           \/ Cardinality(DOMAIN edges_collection) < MaxEdges
        /\ edges_collection' =
               IF raised THEN edges_collection
               ELSE insert(edges_collection, edge_doc)
        /\ UNCHANGED <<workload, server, nodes_collection, pc, call>>
        /\ Completed(p, [op |-> "upsert_edge", node_id |-> source_node_id,
                         target |-> target_node_id, data |-> edge_data,
                         ret |-> ret, raised |-> raised, func_calls |-> 0])

-----------------------------------------------------------------------------
(* delete_node: the sweep, the existence check and the removal are three    *)
(* statements                                                              *)

\* The sweep with its FILTER on edge._from alone
sweep_keys_from_only(edges, node_id) == out_keys(edges, node_id)

\* FOR edge IN edges FILTER edge._from == ... OR edge._to == ... REMOVE edge
sweep_keys(edges, node_id) == out_keys(edges, node_id) \cup in_keys(edges, node_id)

aql_delete_edges(edges, node_id) ==
    [k \in DOMAIN edges \ sweep_keys(edges, node_id) |-> edges[k]]

delete_record(node_id, raised) ==
    [op |-> "delete_node", node_id |-> node_id, target |-> NoId,
     data |-> None, ret |-> None, raised |-> raised, func_calls |-> 0]

\* delete_node going on to the node after a sweep that failed
delete_node_sweep_ignored(p, node_id, fails) ==
    /\ ready(p)
    /\ UNCHANGED <<workload, server, nodes_collection>>
    /\ edges_collection' = IF fails THEN edges_collection
                           ELSE aql_delete_edges(edges_collection, node_id)
    /\ pc' = [pc EXCEPT ![p] = "delete_has"]
    /\ call' = [call EXCEPT ![p] = [op |-> "delete_node", node_id |-> node_id]]
    /\ NotCompleted

delete_node(p, node_id, fails) ==
    /\ ready(p)
    /\ UNCHANGED <<workload, server, nodes_collection>>
    /\ IF fails
       THEN /\ UNCHANGED <<edges_collection, pc, call>>
            /\ Completed(p, delete_record(node_id, TRUE))
       ELSE /\ edges_collection' = aql_delete_edges(edges_collection, node_id)
            /\ pc' = [pc EXCEPT ![p] = "delete_has"]
            /\ call' = [call EXCEPT ![p] = [op |-> "delete_node", node_id |-> node_id]]
            /\ NotCompleted

\* if self.nodes_collection.has(node_id):
delete_node_has(p, fails) ==
    /\ pc[p] = "delete_has"
    /\ UNCHANGED <<workload, server, store>>
    /\ IF ~fails /\ collection_has(nodes_collection, call[p].node_id)
       THEN /\ pc' = [pc EXCEPT ![p] = "delete_delete"]
            /\ UNCHANGED call
            /\ NotCompleted
       ELSE /\ pc' = [pc EXCEPT ![p] = "idle"]
            /\ call' = [call EXCEPT ![p] = NoCall]
            /\ Completed(p, delete_record(call[p].node_id, fails))

\* self.nodes_collection.delete(node_id): raises when the document is gone
delete_node_delete(p, fails) ==
    LET node_id == call[p].node_id
        raised == fails \/ ~collection_has(nodes_collection, node_id)
    IN  /\ pc[p] = "delete_delete"
        /\ nodes_collection' =
               IF raised THEN nodes_collection ELSE delete(nodes_collection, node_id)
        /\ UNCHANGED <<workload, server, edges_collection>>
        /\ pc' = [pc EXCEPT ![p] = "idle"]
        /\ call' = [call EXCEPT ![p] = NoCall]
        /\ Completed(p, delete_record(node_id, raised))

-----------------------------------------------------------------------------
(* embed_nodes *)

\* FOR node IN nodes RETURN {id: node._key, content: node.content}: an
\* attribute the document lacks reads as null
aql_nodes(nodes) ==
    LET order == keys_in_order(DOMAIN nodes)
    IN  [i \in DOMAIN order |->
            [id |-> nodes[order[i]]["_key"],
             content |-> IF "content" \in DOMAIN nodes[order[i]]
                         THEN nodes[order[i]]["content"] ELSE None]]

\* node.get('content', node['id']): the id only when the key is missing, and
\* the query's rows all have it
node_content(node) ==
    IF "content" \in DOMAIN node THEN node.content ELSE node.id

\* the injected embedding function: a vector for a text, an exception otherwise
embedding_raises(content) == content.t # "str"

embedding_func(content) == <<"embedding", content.v>>

\* embed_nodes calling the embedding function once to learn the dimension
\* before it looks at the nodes
embed_return_probe(nodes, fails) ==
    [raised |-> fails,
     func_calls |-> IF fails THEN 0 ELSE 1 + Len(nodes),
     ret |-> [embeddings |-> <<>>, node_ids |-> <<>>]]

\* What embed_nodes returns, whether it caught an exception, and how often it
\* called the embedding function: the loop stops at the first content the
\* function raises on
embed_return(nodes, fails) ==
    LET contents == [i \in DOMAIN nodes |-> node_content(nodes[i])]
        bad == {i \in DOMAIN contents : embedding_raises(contents[i])}
        raised == fails \/ (bad # {})
    IN  [raised |-> raised,
         func_calls |-> IF fails THEN 0
                        ELSE IF bad = {} THEN Len(contents)
                        ELSE CHOOSE i \in bad : \A j \in bad : i <= j,
         ret |-> IF raised \/ Len(nodes) = 0
                 THEN [embeddings |-> <<>>, node_ids |-> <<>>]
                 ELSE [embeddings |->
                           [i \in DOMAIN contents |-> embedding_func(contents[i])],
                       node_ids |-> [i \in DOMAIN nodes |-> nodes[i].id.v]]]

embed_nodes(p, algorithm, fails) ==
    LET out == embed_return(aql_nodes(nodes_collection), fails)
    IN  /\ ready(p)
        /\ UNCHANGED <<workload, server, store, pc, call>>
        /\ Completed(p, [op |-> "embed_nodes", node_id |-> NoId, target |-> NoId,
                         data |-> Str(algorithm), ret |-> out.ret,
                         raised |-> out.raised, func_calls |-> out.func_calls])

-----------------------------------------------------------------------------
(* The point reads as calls: what they return when the store raises         *)

Bool(x) == [t |-> "bool", v |-> x]

\* An exception that leaves a call
Error(kind) == [t |-> "error", v |-> kind]

\* return self.nodes_collection.has(node_id); except: return False
has_node_return(node_id, fails) ==
    Bool(IF fails THEN FALSE ELSE has_node(node_id))

has_edge_return(source_node_id, target_node_id, fails) ==
    Bool(IF fails THEN FALSE ELSE has_edge(source_node_id, target_node_id))

\* dict(node) if node else None
dict_or_none(document) ==
    IF document # None /\ DOMAIN document.v # {} THEN document ELSE None

\* get_node letting the exception of the store through
get_node_return_raising(node_id, fails) ==
    IF fails THEN Error("Exception") ELSE dict_or_none(get_node(node_id))

get_node_return(node_id, fails) ==
    IF fails THEN None ELSE dict_or_none(get_node(node_id))

get_edge_return(source_node_id, target_node_id, fails) ==
    IF fails THEN None
    ELSE dict_or_none(get_edge(source_node_id, target_node_id))

read(p, op, source_node_id, target_node_id, ret, fails) ==
    /\ ready(p)
    /\ UNCHANGED <<workload, server, store, pc, call>>
    /\ Completed(p, [op |-> op, node_id |-> source_node_id,
                     target |-> target_node_id, data |-> None, ret |-> ret,
                     raised |-> fails, func_calls |-> 0])

-----------------------------------------------------------------------------
(* Construction: __post_init__ up to the open connection, then              *)
(* _init_collections one call to the server at a time                      *)

\* addon_params.get("arangodb", self.global_config.get("arangodb", {}))
config_of(global_config) ==
    LET addon_params == IF "addon_params" \in DOMAIN global_config.v
                        THEN global_config.v["addon_params"] ELSE Dict(<<>>)
    IN  IF "arangodb" \in DOMAIN addon_params.v THEN addon_params.v["arangodb"]
        ELSE IF "arangodb" \in DOMAIN global_config.v
            THEN global_config.v["arangodb"]
        ELSE Dict(<<>>)

\* The validation that looks for the host alone
missing_keys_host_only(config) == {"host"} \ DOMAIN config.v

\* [key for key in required_keys if key not in self.config]
missing_keys(config) == required_keys \ DOMAIN config.v

construct_record(global_config, error) ==
    [op |-> "construct", node_id |-> NoId, target |-> NoId,
     data |-> global_config,
     ret |-> IF error = "none" THEN None ELSE Error(error),
     raised |-> error # "none", func_calls |-> 0]

\* What __post_init__ raises before _init_collections: for a missing key, for
\* a failed version probe
post_init_error(global_config, fails) ==
    IF missing_keys(config_of(global_config)) # {} THEN "ValueError"
    ELSE IF fails THEN "ConnectionError"
    ELSE "none"

__post_init__(p, global_config, fails) ==
    LET error == post_init_error(global_config, fails)
    IN  /\ free(p)
        /\ UNCHANGED <<workload, server, store>>
        /\ IF error # "none"
           THEN /\ UNCHANGED <<pc, call>>
                /\ Completed(p, construct_record(global_config, error))
           ELSE /\ pc' = [pc EXCEPT ![p] = "init_has_nodes"]
                /\ call' = [call EXCEPT ![p] =
                               [op |-> "construct", node_id |-> NoId,
                                data |-> global_config,
                                probe_failed |-> fails]]
                /\ NotCompleted

\* The collections and the graph _init_collections looks for and creates, in
\* its order
init_steps ==
    << [has |-> "init_has_nodes", create |-> "init_create_nodes",
        name |-> nodes_collection_name],
       [has |-> "init_has_edges", create |-> "init_create_edges",
        name |-> edges_collection_name],
       [has |-> "init_has_graph", create |-> "init_create_graph",
        name |-> graph_name] >>

after(k) == IF k < Len(init_steps) THEN init_steps[k + 1].has ELSE "init_indexes"

\* An exception raised from another one
Caused(kind, e) == [t |-> "error", v |-> kind, e |-> e]

\* raise RuntimeError(f"Collection initialization failed: {e}")
init_failed(p, e) ==
    /\ pc' = [pc EXCEPT ![p] = "idle"]
    /\ call' = [call EXCEPT ![p] = NoCall]
    /\ Completed(p, [construct_record(call[p].data, "RuntimeError")
                         EXCEPT !.ret = Caused("RuntimeError", e)])

\* The check that never finds the name
exists_never(names, name) == FALSE

\* has_collection, has_graph
exists(names, name) == name \in names

\* if not self.db.has_collection(...): / if not self.db.has_graph(...):
_init_collections_has(p, k, fails) ==
    /\ pc[p] = init_steps[k].has
    /\ UNCHANGED <<workload, server, store>>
    /\ IF fails THEN init_failed(p, "server error")
       ELSE /\ pc' = [pc EXCEPT ![p] =
                         IF exists(database, init_steps[k].name)
                         THEN after(k) ELSE init_steps[k].create]
            /\ UNCHANGED call
            /\ NotCompleted

\* A collection comes with its index on _key
created(name) ==
    IF name = graph_name THEN {name} ELSE {name, index_name(name, "_key")}

\* create_collection, create_graph: raise when the name is taken
_init_collections_create(p, k, fails) ==
    /\ pc[p] = init_steps[k].create
    /\ UNCHANGED <<workload, adapter, store>>
    /\ IF fails \/ init_steps[k].name \in database
       THEN /\ UNCHANGED database
            /\ init_failed(p, IF init_steps[k].name \in database
                               THEN "duplicate name" ELSE "server error")
       ELSE /\ database' = database \cup created(init_steps[k].name)
            /\ pc' = [pc EXCEPT ![p] = after(k)]
            /\ UNCHANGED call
            /\ NotCompleted

\* The indexes _create_indexes adds when no index has just that field
wanted_indexes ==
    {index_name(nodes_collection_name, "_key"),
     index_name(edges_collection_name, "_from"),
     index_name(edges_collection_name, "_to")}

\* _create_indexes letting the exception reach _init_collections
_create_indexes_fatal(p, fails) ==
    /\ pc[p] = "init_indexes"
    /\ UNCHANGED <<workload, store>>
    /\ IF fails
       THEN /\ UNCHANGED server
            /\ init_failed(p, "server error")
       ELSE /\ database' = database \cup wanted_indexes
            /\ adapter' = [adapter EXCEPT ![p] = Adapter(namespace)]
            /\ pc' = [pc EXCEPT ![p] = "idle"]
            /\ call' = [call EXCEPT ![p] = NoCall]
            /\ Completed(p, construct_record(call[p].data, "none"))

\* _create_indexes logs what it catches; then __post_init__ returns and the
\* caller holds the adapter
_create_indexes(p, fails) ==
    /\ pc[p] = "init_indexes"
    /\ UNCHANGED <<workload, store>>
    /\ database' = IF fails THEN database ELSE database \cup wanted_indexes
    /\ adapter' = [adapter EXCEPT ![p] = Adapter(namespace)]
    /\ pc' = [pc EXCEPT ![p] = "idle"]
    /\ call' = [call EXCEPT ![p] = NoCall]
    /\ Completed(p, construct_record(call[p].data, "none"))

-----------------------------------------------------------------------------
(* edge_degree: the two degrees are read in two statements *)

\* src_degree = await self.node_degree(src_id); node_degree returns 0 when its
\* query raises
edge_degree_src(p, src_id, tgt_id, fails) ==
    /\ ready(p)
    /\ UNCHANGED <<workload, server, store>>
    /\ pc' = [pc EXCEPT ![p] = "edge_degree_tgt"]
    /\ call' = [call EXCEPT ![p] =
                   [op |-> "edge_degree", node_id |-> src_id, target |-> tgt_id,
                    src_degree |-> IF fails THEN 0 ELSE node_degree(src_id),
                    raised |-> fails]]
    /\ NotCompleted

\* edge_degree reading both degrees in its last statement
edge_degree_tgt_both(p, fails) ==
    /\ pc[p] = "edge_degree_tgt"
    /\ UNCHANGED <<workload, server, store>>
    /\ pc' = [pc EXCEPT ![p] = "idle"]
    /\ call' = [call EXCEPT ![p] = NoCall]
    /\ Completed(p, [op |-> "edge_degree", node_id |-> call[p].node_id,
                     target |-> call[p].target, data |-> None,
                     ret |-> Num(IF fails THEN call[p].src_degree
                                 ELSE edge_degree(call[p].node_id, call[p].target)),
                     raised |-> call[p].raised \/ fails, func_calls |-> 0])

\* tgt_degree = await self.node_degree(tgt_id); return src_degree + tgt_degree
edge_degree_tgt(p, fails) ==
    LET tgt_degree == IF fails THEN 0 ELSE node_degree(call[p].target)
    IN  /\ pc[p] = "edge_degree_tgt"
        /\ UNCHANGED <<workload, server, store>>
        /\ pc' = [pc EXCEPT ![p] = "idle"]
        /\ call' = [call EXCEPT ![p] = NoCall]
        /\ Completed(p, [op |-> "edge_degree", node_id |-> call[p].node_id,
                         target |-> call[p].target, data |-> None,
                         ret |-> Num(call[p].src_degree + tgt_degree),
                         raised |-> call[p].raised \/ fails, func_calls |-> 0])

-----------------------------------------------------------------------------
(* The specifications *)

InitStore ==
    /\ database \in workload.databases
    /\ adapter = [p \in Callers |->
                      IF workload.configs = {} THEN Adapter(namespace)
                      ELSE NoAdapter]
    /\ nodes_collection = <<>>
    /\ edges_collection = <<>>
    /\ pc = [p \in Callers |-> "idle"]
    /\ call = [p \in Callers |-> NoCall]
    /\ last = [op |-> "none", node_id |-> NoId, target |-> NoId, data |-> None,
               ret |-> None, raised |-> FALSE, func_calls |-> 0]
    /\ repeated = FALSE
    /\ guarded = TRUE
    /\ raced = FALSE
    /\ scenario = 0
    /\ snapshots = [p \in Callers |-> NoSnapshots]

Init == workload \in Workloads /\ InitStore

\* A caller with no call in flight makes a call, or its call in flight runs its
\* next statement; fails: the store raises on the statement
UpsertNode ==
    \E p \in Callers, node_id \in workload.ids,
       node_data \in workload.node_data, fails \in BOOLEAN :
        upsert_node(p, node_id, node_data, fails)

UpsertEdge ==
    \E p \in Callers, s \in workload.ids, t \in workload.ids,
       edge_data \in workload.edge_data, fails \in BOOLEAN :
        upsert_edge(p, s, t, edge_data, fails)

DeleteNode ==
    \E p \in Callers, node_id \in workload.ids, fails \in BOOLEAN :
        delete_node(p, node_id, fails)

DeleteNodeHas == \E p \in Callers, fails \in BOOLEAN : delete_node_has(p, fails)

DeleteNodeDelete ==
    \E p \in Callers, fails \in BOOLEAN : delete_node_delete(p, fails)

EmbedNodes ==
    \E p \in Callers, algorithm \in Algorithms, fails \in BOOLEAN :
        embed_nodes(p, algorithm, fails)

HasNode ==
    \E p \in Callers, node_id \in workload.read_ids, fails \in BOOLEAN :
        read(p, "has_node", node_id, NoId, has_node_return(node_id, fails), fails)

HasEdge ==
    \E p \in Callers, s \in workload.read_ids, t \in workload.read_ids,
       fails \in BOOLEAN :
        read(p, "has_edge", s, t, has_edge_return(s, t, fails), fails)

GetNode ==
    \E p \in Callers, node_id \in workload.read_ids, fails \in BOOLEAN :
        read(p, "get_node", node_id, NoId, get_node_return(node_id, fails), fails)

GetEdge ==
    \E p \in Callers, s \in workload.read_ids, t \in workload.read_ids,
       fails \in BOOLEAN :
        read(p, "get_edge", s, t, get_edge_return(s, t, fails), fails)

PostInit ==
    \E p \in Callers, global_config \in workload.configs, fails \in BOOLEAN :
        __post_init__(p, global_config, fails)

InitCollectionsHas ==
    \E p \in Callers, k \in DOMAIN init_steps, fails \in BOOLEAN :
        _init_collections_has(p, k, fails)

InitCollectionsCreate ==
    \E p \in Callers, k \in DOMAIN init_steps, fails \in BOOLEAN :
        _init_collections_create(p, k, fails)

CreateIndexes == \E p \in Callers, fails \in BOOLEAN : _create_indexes(p, fails)

EdgeDegreeSrc ==
    \E p \in Callers, src_id \in workload.degree_ids,
       tgt_id \in workload.degree_ids, fails \in BOOLEAN :
        edge_degree_src(p, src_id, tgt_id, fails)

EdgeDegreeTgt == \E p \in Callers, fails \in BOOLEAN : edge_degree_tgt(p, fails)

Next ==
    \/ UpsertNode
    \/ UpsertEdge
    \/ DeleteNode
    \/ DeleteNodeHas
    \/ DeleteNodeDelete
    \/ EmbedNodes
    \/ HasNode
    \/ HasEdge
    \/ GetNode
    \/ GetEdge
    \/ PostInit
    \/ InitCollectionsHas
    \/ InitCollectionsCreate
    \/ CreateIndexes
    \/ EdgeDegreeSrc
    \/ EdgeDegreeTgt

\* The calls of one caller, one after the other
Spec == Init /\ [][Next]_vars

\* The calls of two callers, interleaved
InitConc ==
    /\ workload \in {RaceWorkload, RaceConstructWorkload, RaceDegreeWorkload}
    /\ InitStore

SpecConc == InitConc /\ [][Next]_vars

-----------------------------------------------------------------------------
(* The claims *)

\* The ids an edge document names as its source and its target
ends(edge) == {edge_pair(edge)[1], edge_pair(edge)[2]}

references(node_id) ==
    {k \in DOMAIN edges_collection : node_id \in ends(edges_collection[k])}

\* Edges whose source or target is no stored node
dangling == {k \in DOMAIN edges_collection :
                \E n \in ends(edges_collection[k]) : ~has_node(n)}

\* C1: once delete_node(n) has returned with no statement having failed, the
\* calls following one another, n is no stored node, its degree is 0 and no
\* stored edge has n as its source or its target.
C1_CascadeDelete ==
    (Idle /\ last.op = "delete_node" /\ ~last.raised)
        => /\ ~has_node(last.node_id)
           /\ node_degree(last.node_id) = 0
           /\ references(last.node_id) = {}

\* delete_node(b) has returned in the scenario, where b had an edge coming in
\* and an edge going out
C1_Witness ==
    Idle /\ last.op = "delete_node" /\ ~last.raised /\ scenario = 6

\* C2: while every upsert_edge(s, t) so far was issued with s and t stored, the
\* calls following one another, no stored edge dangles.
C2_NoDanglingEdge == guarded => dangling = {}

\* C3: with two callers, an edge dangles only after an upsert_edge wrote it
\* between the sweep of a delete_node of one of its ends and that call's
\* return, every upsert_edge having found both ends stored.
C3_DanglingByRaceOnly == (guarded /\ ~raced) => dangling = {}

\* Both calls have returned, the node is gone and the edge written after the
\* sweep references it
C3_Witness ==
    /\ Idle
    /\ guarded
    /\ raced
    /\ last.op = "delete_node"
    /\ ~has_node(last.node_id)
    /\ references(last.node_id) # {}

\* The attributes of a document or of an attribute mapping, the store's own
\* keys left out
attributes(data) == [k \in DOMAIN data.v \ ReservedKeys |-> data.v[k]]

\* An attribute mapping as the store holds it
stored_form(data) == json(_serialize_data(data))

\* The stored edges whose source and target are the given ones
edges_of_pair(edges, s, t) ==
    {k \in DOMAIN edges : edge_pair(edges[k]) = <<s, t>>}

\* C4: when a successful upsert_edge(s, t, B) follows a successful
\* upsert_edge(s, t, A), A # B, one stored edge has source s and target t, the
\* store has as many edges as before the second call, and get_edge(s, t) has
\* the attributes of B and no others.
C4_OneEdgePerPair ==
    [][ (/\ completes
         /\ last.op = "upsert_edge" /\ last.ret.success
         /\ last'.op = "upsert_edge" /\ last'.ret.success
         /\ last'.node_id = last.node_id /\ last'.target = last.target
         /\ last'.data # last.data)
        => LET s == last.node_id
               t == last.target
               edge == collection_get(edges_collection', edge_key(s, t))
           IN  /\ Cardinality(edges_of_pair(edges_collection', s, t)) = 1
               /\ Cardinality(DOMAIN edges_collection')
                      = Cardinality(DOMAIN edges_collection)
               /\ edge # None
               /\ attributes(edge) = attributes(stored_form(last'.data)) ]_vars

\* C5: a successful upsert_edge(a, b) made while no stored edge has source a
\* and target b raises node_degree(a) and node_degree(b) by 1 each, and
\* node_degree(a) by 2 when a = b.
C5_DegreeSymmetry ==
    [][ (/\ completes
         /\ last'.op = "upsert_edge" /\ last'.ret.success
         /\ edges_of_pair(edges_collection, last'.node_id, last'.target) = {})
        => LET s == last'.node_id
               t == last'.target
               rise(n) == degree_in(edges_collection', n)
                              - degree_in(edges_collection, n)
           IN  IF s = t THEN rise(s) = 2 ELSE rise(s) = 1 /\ rise(t) = 1 ]_vars

C7_RoundTrip ==
    (Idle /\ last.op = "upsert_node" /\ last.ret.success)
        => get_node(last.node_id) = _serialize_data(last.data)

C9_EmptyEmbedding ==
    (Idle /\ last.op = "embed_nodes" /\ DOMAIN nodes_collection = {})
        => /\ last.ret = [embeddings |-> <<>>, node_ids |-> <<>>]
           /\ last.func_calls = 0

\* embed_nodes has returned from a query that succeeded on the empty
\* collection
C9_Witness ==
    /\ Idle
    /\ last.op = "embed_nodes"
    /\ ~last.raised
    /\ DOMAIN nodes_collection = {}

\* C10: when a successful upsert_node(id, B) follows a successful
\* upsert_node(id, A), the document stored for id has the attributes of B and
\* no others, none of the keys A has and B lacks, and the store has as many
\* nodes as before the second call.
C10_ReplaceNotMerge ==
    [][ (/\ completes
         /\ last.op = "upsert_node" /\ last.ret.success
         /\ last'.op = "upsert_node" /\ last'.ret.success
         /\ last'.node_id = last.node_id)
        => LET node == collection_get(nodes_collection', last.node_id)
           IN  /\ node # None
               /\ attributes(node) = attributes(stored_form(last'.data))
               /\ DOMAIN node.v \cap (DOMAIN last.data.v \ DOMAIN last'.data.v) = {}
               /\ Cardinality(DOMAIN nodes_collection')
                      = Cardinality(DOMAIN nodes_collection) ]_vars

\* A step of a delete_node call, and the node it is to delete
delete_step(p) ==
    \/ pc[p] = "idle" /\ pc'[p] = "delete_has"
    \/ pc[p] \in {"delete_has", "delete_delete"}

delete_target(p) == IF pc[p] = "idle" THEN call'[p].node_id ELSE call[p].node_id

\* C11: delete_node(id) for an id that is no stored node leaves the node and
\* the edge collection as they are, in every statement of the call, also when
\* stored edges have id as their source or target.
C11_DeleteAbsentNoOp ==
    [][ \A p \in Callers :
            (delete_step(p) /\ ~has_node(delete_target(p))) => store' = store ]_vars

\* The collection holds a document with the attributes of the attribute
\* mapping as the store keeps them
holds_document(collection, data) ==
    \E k \in DOMAIN collection :
        attributes(Dict(collection[k])) = attributes(stored_form(data))

\* C12: upsert_node and upsert_edge return a result with a success flag; when
\* the flag is true the collection holds the document, and when it is false
\* the store is as it was and the result has the error text.
C12_UpsertResult ==
    [][ (completes /\ last'.op \in {"upsert_node", "upsert_edge"})
        => /\ last'.ret.success \in BOOLEAN
           /\ last'.ret.success
                  => holds_document(IF last'.op = "upsert_node"
                                    THEN nodes_collection' ELSE edges_collection',
                                    last'.data)
           /\ ~last'.ret.success
                  => store' = store /\ "error" \in DOMAIN last'.ret ]_vars

\* An upsert_node whose document the driver could not encode has returned its
\* failure, and the caller goes on
C12_Witness ==
    /\ Idle
    /\ last.op = "upsert_node"
    /\ last.data = DataTupleVector
    /\ ~last.ret.success
    /\ "error" \in DOMAIN last.ret

\* C13: has_node and has_edge return False, and get_node and get_edge return
\* None, when the document is absent and also when the access to the store
\* fails; the failure looks like the absence.
C13_ReadsNeverRaise ==
    /\ (Idle /\ last.op = "has_node"
             /\ (last.raised \/ last.node_id \notin DOMAIN nodes_collection))
           => last.ret = Bool(FALSE)
    /\ (Idle /\ last.op = "has_edge"
             /\ (last.raised \/ edge_key(last.node_id, last.target)
                                    \notin DOMAIN edges_collection))
           => last.ret = Bool(FALSE)
    /\ (Idle /\ last.op = "get_node"
             /\ (last.raised \/ last.node_id \notin DOMAIN nodes_collection))
           => last.ret = None
    /\ (Idle /\ last.op = "get_edge"
             /\ (last.raised \/ edge_key(last.node_id, last.target)
                                    \notin DOMAIN edges_collection))
           => last.ret = None

\* get_node of a stored node has returned None because the access failed
C13_Witness ==
    /\ Idle
    /\ last.op = "get_node"
    /\ last.raised
    /\ last.node_id \in DOMAIN nodes_collection
    /\ last.ret = None

\* C14: a construction that fails raises the configuration error (ValueError)
\* or the connection error (ConnectionError), whichever step failed, and no
\* other exception.
C14_TwoErrorKinds ==
    (last.op = "construct" /\ last.raised)
        => last.ret \in {Error("ValueError"), Error("ConnectionError")}

\* The "arangodb" sections a global_config supplies, under addon_params and at
\* the top level
sections(global_config) ==
    LET top == global_config.v
        addon == IF "addon_params" \in DOMAIN top
                 THEN top["addon_params"].v ELSE <<>>
    IN  (IF "arangodb" \in DOMAIN addon THEN {addon["arangodb"]} ELSE {})
            \cup (IF "arangodb" \in DOMAIN top THEN {top["arangodb"]} ELSE {})

\* No section the global_config supplies has all of host, port, username,
\* password and database
lacking(global_config) ==
    \A section \in sections(global_config) :
        ~({"host", "port", "username", "password", "database"}
              \subseteq DOMAIN section.v)

\* C15: a construction whose configuration lacks one of host, port, username,
\* password, database, be the section under addon_params or at the top level,
\* fails with ValueError in its first step, the server reachable or not: it
\* never comes to look for or create a collection, and the server and the
\* adapters are as before.
C15_ConfigurationFirst ==
    [][ /\ (completes /\ last'.op = "construct" /\ lacking(last'.data))
            => /\ Idle
               /\ last'.ret = Error("ValueError")
               /\ server' = server
               /\ store' = store
        /\ \A p \in Callers :
               (pc[p] = "idle" /\ pc'[p] # "idle" /\ call'[p].op = "construct")
                   => ~lacking(call'[p].data) ]_vars

\* A construction with the section under addon_params, database missing, has
\* failed on a server that has none of the collections
C15_Witness ==
    /\ last.op = "construct"
    /\ last.data = GlobalAddonNoDatabase
    /\ last.ret = Error("ValueError")
    /\ database = {}

\* A step of a construction
construct_step(p) ==
    \/ pc[p] = "idle" /\ pc'[p] = "init_has_nodes"
    \/ pc[p] \notin {"idle", "delete_has", "delete_delete"}
    \/ pc[p] = "idle" /\ completes /\ last'.op = "construct"

\* C16: constructions that follow one another create a collection or the graph
\* only when the server lacks it, take nothing away from the server and leave
\* the stored nodes and edges as they are; the adapters constructed hold the
\* same names, those of the collections and the graph of the namespace, which
\* the server then has.
C16_Provisioning ==
    [][ /\ \A p \in Callers :
               construct_step(p) => store' = store /\ database \subseteq database'
        /\ \A p \in Callers : \A k \in DOMAIN init_steps :
               pc'[p] = init_steps[k].create => init_steps[k].name \notin database'
        /\ \A p \in Callers : \A q \in Callers :
               (adapter'[p] # NoAdapter /\ adapter'[q] # NoAdapter)
                   => /\ adapter'[p] = adapter'[q]
                      /\ adapter'[p].nodes_collection_name = nodes_collection_name
                      /\ adapter'[p].edges_collection_name = edges_collection_name
                      /\ {adapter'[p].nodes_collection_name,
                          adapter'[p].edges_collection_name,
                          adapter'[p].graph_name} \subseteq database' ]_vars

\* A second adapter has been constructed on the server where the first one's
\* node and edge are stored
C16_Witness ==
    /\ Idle
    /\ last.op = "construct"
    /\ ~last.raised
    /\ \A p \in Callers : adapter[p] # NoAdapter
    /\ a \in DOMAIN nodes_collection
    /\ edges_collection # <<>>

\* C17: a successful upsert_edge(s, t, A), s and t stored or not, leaves
\* has_edge(s, t) true and the edge counted in the degree of s as outgoing and
\* of t as incoming; an upsert_node leaves the edge collection as it is.
C17_EdgeWithoutEndpoints ==
    [][ /\ (completes /\ last'.op = "upsert_edge" /\ last'.ret.success)
            => LET s == last'.node_id
                   t == last'.target
               IN  /\ collection_has(edges_collection', edge_key(s, t))
                   /\ edge_key(s, t) \in out_keys(edges_collection', s)
                   /\ edge_key(s, t) \in in_keys(edges_collection', t)
        /\ (completes /\ last'.op = "upsert_node")
            => edges_collection' = edges_collection ]_vars

\* The stored edges that name the id as their source, and as their target
edges_from(node_id) ==
    {k \in DOMAIN edges_collection : edge_pair(edges_collection[k])[1] = node_id}

edges_to(node_id) ==
    {k \in DOMAIN edges_collection : edge_pair(edges_collection[k])[2] = node_id}

\* C18: node_degree(id) is the number of stored edges with source id plus the
\* number of stored edges with target id, a self-loop counting twice, whether
\* id is a stored node or not.
C18_NodeDegree ==
    \A id \in workload.ids :
        node_degree(id) = Cardinality(edges_from(id)) + Cardinality(edges_to(id))

\* A self-loop is the one stored edge, of an id that is no node and has
\* degree 2, while another id has degree 0
C18_Witness ==
    \E id \in workload.ids : \E other \in workload.ids :
        /\ ~has_node(id)
        /\ edges_from(id) = edges_to(id)
        /\ Cardinality(edges_from(id)) = 1
        /\ node_degree(id) = 2
        /\ node_degree(other) = 0

\* C19: with calls that follow one another, edge_degree(s, t) is the number
\* of stored edges by source and by target of s plus that of t, on the store
\* as the call finds it, whether an edge (s, t) is stored or not.
C19_EdgeDegree ==
    \A s \in workload.ids : \A t \in workload.ids :
        edge_degree(s, t) = Cardinality(edges_from(s)) + Cardinality(edges_to(s))
                                + Cardinality(edges_from(t)) + Cardinality(edges_to(t))

\* After a delete_node that removed edges, a pair with no stored edge has an
\* edge_degree above 0
C19_Witness ==
    /\ Idle
    /\ last.op = "delete_node"
    /\ ~last.raised
    /\ \E s \in workload.ids : \E t \in workload.ids :
           /\ edges_of_pair(edges_collection, s, t) = {}
           /\ ~has_edge(s, t)
           /\ edge_degree(s, t) > 0

\* C20: get_node_edges(id) has one pair for each stored edge that has id as
\* its source or its target, a self-loop (id, id) among them once.
C20_EdgesOnce ==
    \A id \in workload.ids :
        LET pairs == get_node_edges(id)
        IN  /\ Len(pairs) = Cardinality(edges_from(id) \cup edges_to(id))
            /\ \A k \in edges_from(id) \cup edges_to(id) :
                   \E i \in DOMAIN pairs : pairs[i] = edge_pair(edges_collection[k])

\* The text embed_nodes is to embed for a stored node: its content attribute,
\* its identifier when it has none
text_of(node_id) ==
    IF "content" \in DOMAIN nodes_collection[node_id]
    THEN nodes_collection[node_id]["content"] ELSE Str(node_id)

\* C21: on a node collection that is not empty, and the query succeeding,
\* embed_nodes returns as many rows as identifiers, one for each stored node,
\* row i the embedding of the content of node i, or of its identifier when it
\* has no content; the embedding function is called once for each node.
C21_EmbedRows ==
    (/\ Idle
     /\ last.op = "embed_nodes"
     /\ DOMAIN nodes_collection # {}
     /\ ~(last.raised /\ last.func_calls = 0))
        => LET embeddings == last.ret.embeddings
               node_ids == last.ret.node_ids
           IN  /\ Len(embeddings) = Cardinality(DOMAIN nodes_collection)
               /\ Len(node_ids) = Len(embeddings)
               /\ {node_ids[i] : i \in DOMAIN node_ids} = DOMAIN nodes_collection
               /\ \A i \in DOMAIN node_ids :
                      embeddings[i] = embedding_func(text_of(node_ids[i]))
               /\ last.func_calls = Cardinality(DOMAIN nodes_collection)

\* The ids one hop from a set of ids, along stored edges in either direction
neighbours(ids) ==
    {edge_pair(edges_collection[k])[2] : k \in UNION {edges_from(n) : n \in ids}}
        \cup {edge_pair(edges_collection[k])[1] :
                 k \in UNION {edges_to(n) : n \in ids}}

\* The ids within the given number of hops of a set of ids
RECURSIVE within(_, _)
within(ids, hops) ==
    IF hops = 0 THEN ids ELSE within(ids \cup neighbours(ids), hops - 1)

\* The ids reachable from id in 1 to 10 hops
reachable(id) == within(neighbours({id}), 9)

\* 1/n for the number of ids in the set, 0 for the empty set
one_over(ids) == IF ids = {} THEN <<0, 1>> ELSE <<1, Cardinality(ids)>>

\* C22: get_pagerank(id) is a value in [0, 1]: 0 when id is no stored node or
\* no node is reachable from it within 10 hops along edges in either
\* direction, and otherwise 1 over the number of nodes reachable, be id itself
\* and ends that are no stored nodes counted among them or not.
C22_Pagerank ==
    \A id \in workload.ids :
        LET score == get_pagerank(id)
            others == reachable(id) \ {id}
            stored == DOMAIN nodes_collection
        IN  /\ 0 <= score[1] /\ score[1] <= score[2]
            /\ ~has_node(id) => score = <<0, 1>>
            /\ reachable(id) = {} => score = <<0, 1>>
            /\ (has_node(id) /\ reachable(id) # {})
                   => score \in {one_over(reachable(id)), one_over(others),
                                 one_over(reachable(id) \cap stored),
                                 one_over(others \cap stored)}

\* C23: what _serialize_data returns for the attribute mapping of a write is a
\* mapping with the same keys that has no numeric vector at any depth, and
\* serializing it again changes nothing.
C23_Serialized ==
    last.op \in {"upsert_node", "upsert_edge"}
        => /\ _serialize_data(last.data).t = "dict"
           /\ DOMAIN _serialize_data(last.data).v = DOMAIN last.data.v
           /\ ~has_ndarray(_serialize_data(last.data))
           /\ _serialize_data(_serialize_data(last.data)) = _serialize_data(last.data)

\* C24: the step that lists and creates the indexes ends the construction
\* with the adapter constructed, whether it fails or not, and leaves the
\* stored documents alone; no construction goes on after a version probe that
\* failed.
C24_IndexesNotFatal ==
    [][ \A p \in Callers :
            /\ pc[p] = "init_indexes" /\ pc'[p] # "init_indexes"
                   => /\ pc'[p] = "idle"
                      /\ last'.op = "construct"
                      /\ ~last'.raised
                      /\ adapter'[p] = Adapter(namespace)
                      /\ store' = store
            /\ (pc'[p] # "idle" /\ call'[p].op = "construct")
                   => ~call'[p].probe_failed ]_vars

\* An adapter constructed on a server that lacks the index on _from has
\* returned a stored node
C24_Witness ==
    /\ Idle
    /\ index_name(edges_collection_name, "_from") \notin database
    /\ last.op = "get_node"
    /\ ~last.raised
    /\ last.ret # None

\* Every stored edge is filed under the key of the pair it joins
regular(edges) ==
    \A k \in DOMAIN edges :
        /\ edges[k]["_key"].v = k
        /\ k = edge_key(edge_pair(edges[k])[1], edge_pair(edges[k])[2])

\* C25: in a store whose edges are each filed under the key of their own
\* pair, an upsert_edge(s', t', _) leaves the edge of every other ordered
\* pair stored and unaltered, and afterwards has_edge(s, t) and get_edge(s, t)
\* report only an edge that joins s to t.
C25_InjectiveKeys ==
    [][ ( /\ last'.op = "upsert_edge"
          /\ edges_collection' # edges_collection
          /\ regular(edges_collection)
          /\ regular(edges_collection') )
        => /\ \A k \in DOMAIN edges_collection :
                  edge_pair(edges_collection[k]) # <<last'.node_id, last'.target>>
                      => /\ k \in DOMAIN edges_collection'
                         /\ edges_collection'[k] = edges_collection[k]
           /\ \A s \in workload.ids, t \in workload.ids :
                  has_edge(s, t)'
                      => edge_pair(get_edge(s, t).v)' = <<s, t>> ]_vars

\* C26: a successful upsert_node(id, A) writes the document keyed id and
\* leaves every other node as it was; a successful upsert_edge(s, t, A) writes
\* an edge from s to t under the key of (s, t) and leaves every other edge as
\* it was; the id in the returned result is a key of the written document.
C26_IdentityFromArguments ==
    [][ /\ ( /\ last'.op = "upsert_node"
             /\ nodes_collection' # nodes_collection )
            => /\ last'.node_id \in DOMAIN nodes_collection'
               /\ nodes_collection'[last'.node_id]["_key"].v = last'.node_id
               /\ last'.ret.node_id = last'.node_id
               /\ \A k \in DOMAIN nodes_collection \ {last'.node_id} :
                      /\ k \in DOMAIN nodes_collection'
                      /\ nodes_collection'[k] = nodes_collection[k]
               /\ DOMAIN nodes_collection'
                      \subseteq DOMAIN nodes_collection \cup {last'.node_id}
        /\ ( /\ last'.op = "upsert_edge"
             /\ edges_collection' # edges_collection )
            => LET key == edge_key(last'.node_id, last'.target)
               IN  /\ key \in DOMAIN edges_collection'
                   /\ edges_collection'[key]["_key"].v = key
                   /\ edge_pair(edges_collection'[key])
                          = <<last'.node_id, last'.target>>
                   /\ last'.ret.edge_id = key
                   /\ \A k \in DOMAIN edges_collection \ {key} :
                          /\ k \in DOMAIN edges_collection'
                          /\ edges_collection'[k] = edges_collection[k]
                   /\ DOMAIN edges_collection'
                          \subseteq DOMAIN edges_collection \cup {key} ]_vars

\* C27: where constructions interleave, none fails because a collection or
\* the graph it set out to create exists by then: a construction that raises
\* RuntimeError does so for an error of the server; and the adapters
\* constructed are bound to the same collections and graph, which the server
\* has.
C27_ConcurrentConstruction ==
    /\ (last.op = "construct" /\ last.raised /\ last.ret.v = "RuntimeError")
           => last.ret.e = "server error"
    /\ \A p \in Callers : \A q \in Callers :
           (adapter[p] # NoAdapter /\ adapter[q] # NoAdapter)
               => /\ adapter[p] = adapter[q]
                  /\ {adapter[p].nodes_collection_name,
                      adapter[p].edges_collection_name,
                      adapter[p].graph_name} \subseteq database

\* C28, as stated: the calls following one another, during a delete_node(n)
\* and after it has returned, n is a stored node or no stored edge has n as
\* its source or target.
C28_NeverAbsentWithEdges ==
    /\ \A p \in Callers :
           pc[p] \in {"delete_has", "delete_delete"}
               => has_node(call[p].node_id) \/ references(call[p].node_id) = {}
    /\ (Idle /\ last.op = "delete_node")
           => has_node(last.node_id) \/ references(last.node_id) = {}

\* C28: the calls following one another, a delete_node that returns from its
\* sweep statement leaves the nodes and the edges as they were and hands no
\* error to its caller; past the sweep no stored edge has the node as its
\* source or target; and a node is removed only when no stored edge has it as
\* its source or target.
C28_SweepBeforeRemoval ==
    [][ /\ (Idle /\ Idle' /\ last'.op = "delete_node")
            => store' = store /\ last'.ret = None
        /\ \A p \in Callers :
               pc'[p] \in {"delete_has", "delete_delete"}
                   => \A k \in DOMAIN edges_collection' :
                          call'[p].node_id \notin ends(edges_collection'[k])
        /\ \A n \in DOMAIN nodes_collection \ DOMAIN nodes_collection' :
               references(n) = {} /\ references(n)' = {} ]_vars

\* A delete_node whose sweep failed has returned: the node is stored, and so
\* are the edges on it
C28_Witness ==
    /\ Idle
    /\ last.op = "delete_node"
    /\ last.raised
    /\ has_node(last.node_id)
    /\ references(last.node_id) # {}

\* C29: the calls following one another, for every id get_node_edges(id)
\* returns as many pairs as node_degree(id) says, which is as many as
\* get_node_in_edges(id) and get_node_out_edges(id) return together.
C29_CountsAgree ==
    Idle => \A id \in workload.ids :
                /\ Len(get_node_edges(id)) = node_degree(id)
                /\ node_degree(id) = Len(get_node_in_edges(id))
                                         + Len(get_node_out_edges(id))

\* A node with a self-loop and an edge to another node: degree 3, three pairs
C29_Witness ==
    /\ Idle
    /\ \E id \in workload.ids : \E other \in workload.ids \ {id} :
           /\ <<id, id>> \in {get_node_in_edges(id)[i] :
                                  i \in DOMAIN get_node_in_edges(id)}
           /\ <<id, other>> \in {get_node_out_edges(id)[i] :
                                     i \in DOMAIN get_node_out_edges(id)}
           /\ node_degree(id) = 3
           /\ Len(get_node_edges(id)) = 3

\* C30, as stated: an edge_degree(s, t) none of whose statements failed
\* returns the sum of the degrees of s and t in one state that the edge
\* collection was in between the call's first statement and its return, also
\* when the calls of another caller write between its two reads.
C30_ConsistentSnapshot ==
    [][ \A p \in Callers :
            (pc[p] = "edge_degree_tgt" /\ pc'[p] = "idle" /\ ~last'.raised)
                => last'.ret.v \in snapshots[p].sums ]_vars

\* C30: an edge_degree(s, t) none of whose statements failed returns the
\* degree of s in the edge collection as the call began plus the degree of t
\* in the edge collection as the call returns; where the two are the same
\* collection, that is the sum of the two degrees in it.
C30_TwoReads ==
    [][ \A p \in Callers :
            (pc[p] = "edge_degree_tgt" /\ pc'[p] = "idle" /\ ~last'.raised)
                => /\ last'.ret.v
                          = degree_in(snapshots[p].began, call[p].node_id)
                                + degree_in(edges_collection, call[p].target)
                   /\ snapshots[p].began = edges_collection
                          => last'.ret.v
                                 = edge_degree(call[p].node_id, call[p].target) ]_vars

\* An edge_degree has returned, no statement having failed, what is not the
\* sum of the two degrees in the edge collection it returned in: a call of
\* another caller wrote between its two reads
C30_Witness ==
    /\ Idle
    /\ last.op = "edge_degree"
    /\ ~last.raised
    /\ last.ret.v # edge_degree(last.node_id, last.target)

====
